---- MODULE Spec2Model ----
(***************************************************************************)
(* Model of the vehicles pipeline: the server's POST /vehicles handler     *)
(* (src/server.py) and the client's processVehicleData / createExcelFile / *)
(* colorByAge (src/client.py).                                             *)
(*                                                                         *)
(* A Python str is a sequence of one-character strings, '' is <<>>.        *)
(* A Python dict with str keys is a function whose domain is a set of      *)
(* TLA+ strings (the key names).                                           *)
(***************************************************************************)
EXTENDS Integers, Sequences, FiniteSets, TLC

\* ------------------------------------------------------------------ config
KEY_KURZNAME == "kurzname"
KEY_LABELIDS == "labelIds"
KEY_HU == "hu"
KEY_LABELCOLOR == "_labelColor"
KEY_RNR == "rnr"
KEY_GRUPPE == "gruppe"
KEY_INFO == "info"

COLOR_GREEN == "007500"
COLOR_ORANGE == "FFA500"
COLOR_RED == "B30000"
None == "None"

\* ------------------------------------------------------------------ bounds
MaxRows == 2
MaxActive == 2
MaxLabelLen == 3
MaxKeys == 3
MaxVehicles == 3
YearSpan == 2

\* ------------------------------------------------------------------ str
\* truth value of a str: `if s:` / `not s`
Truthy(s) == s /= <<>>

\* the characters str.strip() removes
Whitespace == {" ", "\t", "\n"}

\* str.lstrip(chars)
RECURSIVE lstrip(_, _)
lstrip(s, chars) == IF s /= <<>> /\ Head(s) \in chars THEN lstrip(Tail(s), chars) ELSE s

\* str.rstrip(chars)
RECURSIVE rstrip(_, _)
rstrip(s, chars) ==
    IF s /= <<>> /\ s[Len(s)] \in chars THEN rstrip(SubSeq(s, 1, Len(s) - 1), chars) ELSE s

\* str.strip()
strip(s) == rstrip(lstrip(s, Whitespace), Whitespace)

\* str.split(','): the list of the fields between the commas, [''] for ''
RECURSIVE split(_)
split(s) ==
    IF \E i \in 1..Len(s) : s[i] = ","
    THEN LET i == CHOOSE j \in 1..Len(s) : s[j] = "," /\ \A h \in 1..(j - 1) : s[h] /= ","
         IN  <<SubSeq(s, 1, i - 1)>> \o split(SubSeq(s, i + 1, Len(s)))
    ELSE <<s>>

\* all sequences over S of length at most n
RECURSIVE SeqsUpTo(_, _)
SeqsUpTo(S, n) ==
    IF n = 0 THEN {<<>>}
    ELSE LET T == SeqsUpTo(S, n - 1)
         IN  T \cup {Append(t, x) : t \in {u \in T : Len(u) = n - 1}, x \in S}

\* d[k] = x on a dict
SetKey(d, k, x) == [j \in DOMAIN d \cup {k} |-> IF j = k THEN x ELSE d[j]]

EmptyDict == [j \in {} |-> <<>>]

\* ------------------------------------------------------------------ state
VARIABLES
    spc,                \* server: position in the /vehicles handler
    file,               \* server: the uploaded file of the request
    vehicles,           \* server: the handler's `vehicles` list
    baubuddyToken,      \* server: result of loginBaubuddy()
    activeVehiclesDict, \* server: kurzname -> active vehicle
    labelColors,        \* server: cache for label colors
    labelCalls,         \* server: the labels getBaubuddyLabelColor was called with
    vi,                 \* server: index of the label loop
    response,           \* the HTTP response of POST /vehicles, NoResponse before it
    cpc,                \* client: position in processVehicleData / createExcelFile
    keysArg,            \* client: args.keys, <<>> for None and for []
    colored,            \* client: args.colored
    now,                \* client: datetime.now()
    sortedVehicles,     \* client: the vehicles sorted by 'gruppe'
    keys,               \* client: the filtered keys
    ws,                 \* client: the worksheet, one sequence of cells per row
    fills,              \* client: ws.row_dimensions[r].fill, None for no fill
    fonts,              \* client: the styled labelIds cell of each row
    rowCount,           \* client: the next worksheet row
    artifact,           \* client: the Excel file on disk
    exitCode,           \* client: the process's exit status once cpc = "exit"
    raised,             \* client: the exception that ended the process, None otherwise
    dateStr,            \* colorByAge: its argument
    color               \* colorByAge: its result

serverVars == <<spc, file, vehicles, baubuddyToken, activeVehiclesDict,
                labelColors, labelCalls, vi>>

clientVars == <<cpc, keysArg, colored, now, sortedVehicles, keys, ws, fills, fonts, rowCount,
                artifact, exitCode, raised>>

colorVars == <<dateStr, color>>

vars == <<serverVars, response, clientVars, colorVars>>

\* ------------------------------------------------------------------ server inputs
NameA == <<"A">>
NameB == <<"B">>

\* the rows csv.DictReader yields for a header: every row has the header's keys
RECURSIVE CsvRows(_, _)
CsvRows(header, values) ==
    IF header = {} THEN {EmptyDict}
    ELSE LET k == CHOOSE x \in header : TRUE
         IN  {SetKey(r, k, x) : r \in CsvRows(header \ {k}, values), x \in values[k]}

NoFile == [kind |-> "none", rows |-> <<>>]
MalformedFile == [kind |-> "malformed", rows |-> <<>>]

\* the uploaded file: absent, undecodable, or the rows of a CSV text
CsvFiles(headers, values) ==
    {NoFile, MalformedFile}
    \cup {[kind |-> "csv", rows |-> rows] :
            rows \in UNION {SeqsUpTo(CsvRows(h, values), MaxRows) : h \in headers}}

\* /vehicles/select/active: records with some of the keys
ActiveRecords(values) ==
    UNION {CsvRows({KEY_KURZNAME} \cup h, values) : h \in SUBSET {KEY_HU, KEY_LABELIDS}}

\* CSV cells of the reconciliation inputs
MergeCsvValues ==
    [k \in {KEY_KURZNAME, KEY_HU, KEY_LABELIDS} |->
    CASE k = KEY_KURZNAME -> {NameA, NameB}
      [] k = KEY_HU       -> {<<>>, <<"h">>}
      [] k = KEY_LABELIDS -> {<<>>, <<"7">>, <<"7", ",", "8">>}]

\* values of the active vehicles 
MergeActiveValues ==
    [k \in {KEY_KURZNAME, KEY_HU, KEY_LABELIDS} |->
    CASE k = KEY_KURZNAME -> {NameA}
      [] k = KEY_HU       -> {<<>>, <<"e">>}
      [] k = KEY_LABELIDS -> {<<"7">>}]

MergeFiles ==
    CsvFiles({{KEY_KURZNAME} \cup h : h \in SUBSET {KEY_HU, KEY_LABELIDS}}, MergeCsvValues)

\* CSV cells of the label inputs: every labelIds text up to MaxLabelLen characters
LabelCsvValues ==
    [k \in {KEY_KURZNAME, KEY_HU, KEY_LABELIDS} |->
    CASE k = KEY_KURZNAME -> {NameA, NameB}
      [] k = KEY_HU       -> {<<"h">>}
      [] k = KEY_LABELIDS -> SeqsUpTo({"7", " ", ","}, MaxLabelLen)]

\* one-row files with every labelIds text
LabelFiles ==
    {[kind |-> "csv", rows |-> <<r>>] :
        r \in CsvRows({KEY_KURZNAME, KEY_HU, KEY_LABELIDS}, LabelCsvValues)}

MergeActiveLists == SeqsUpTo(ActiveRecords(MergeActiveValues), MaxActive)

\* what /labels/<id> answers: nothing, or a colour
LabelAnswers == {<<>>, <<"#", "a">>, <<"#", "b">>}

\* ------------------------------------------------------------------ server
JSONResponse(status, message, vs) == [status |-> status, message |-> message, vehicles |-> vs]

\* no response yet (status 0)
NoResponse == JSONResponse(0, None, <<>>)

\* an uncaught exception in the handler: the framework answers 500 without a JSON body
InternalServerError == JSONResponse(500, None, <<>>)

\* lines 120-123: later duplicates of a kurzname overwrite earlier ones
RECURSIVE MakeActiveDict(_)
MakeActiveDict(list) ==
    IF list = <<>> THEN EmptyDict
    ELSE SetKey(MakeActiveDict(SubSeq(list, 1, Len(list) - 1)),
                list[Len(list)][KEY_KURZNAME], list[Len(list)])

\* lines 141-145, VARIANT 1: active data overwrites the CSV values
FillMissing_overwrite(v, av) ==
    [key \in DOMAIN v \cup DOMAIN av |-> IF key \in DOMAIN av THEN av[key] ELSE v[key]]

\* lines 135-149, VARIANT 2: active data fills the keys the CSV has no value for
FillMissing(v, av) ==
    [key \in DOMAIN v \cup DOMAIN av |->
        IF key \in DOMAIN av /\ (key \notin DOMAIN v \/ ~Truthy(v[key]))
        THEN av[key] ELSE v[key]]

\* lines 129-134: a vehicle that is not among the active ones is skipped
UpdateVehicle(v, dict) ==
    IF v[KEY_KURZNAME] \notin DOMAIN dict THEN v
    ELSE FillMissing(v, dict[v[KEY_KURZNAME]])

\* the filter without the test of the value
HasHu_keyOnly(x) == KEY_HU \in DOMAIN x

\* line 152: the filter's predicate
HasHu(x) == KEY_HU \in DOMAIN x /\ Truthy(x[KEY_HU])

\* a cache that is never hit
InCache_never(id, cache) == FALSE

\* line 161: is the label's colour in the cache
InCache(id, cache) == id \in DOMAIN cache

\* line 160: the first label id of the labelIds value
FirstLabelId(labelIds) == split(strip(labelIds))[1]

\* POST /vehicles arrives; lines 86-104
vehicles_Request(files) ==
    /\ spc = "idle"
    /\ \E f \in files :
        /\ file' = f
        /\ IF f.kind = "none"
           THEN /\ response' = JSONResponse(400, "No CSV file provided", <<>>)
                /\ spc' = "done"
                /\ vehicles' = vehicles
           ELSE IF f.kind = "malformed"
           THEN /\ response' = JSONResponse(400, "Failed to process CSV file", <<>>)
                /\ spc' = "done"
                /\ vehicles' = vehicles
           ELSE IF ~Truthy(f.rows)
           THEN /\ response' = JSONResponse(400, "No vehicles found in provided CSV file.", <<>>)
                /\ spc' = "done"
                /\ vehicles' = f.rows
           ELSE /\ response' = response
                /\ spc' = "login"
                /\ vehicles' = f.rows
    /\ UNCHANGED <<baubuddyToken, activeVehiclesDict, labelColors,
                   labelCalls, vi>>
    /\ UNCHANGED <<clientVars, colorVars>>

\* lines 106-112 with loginBaubuddy, lines 24-42: '' when the login fails
vehicles_Login ==
    /\ spc = "login"
    /\ \E token \in {<<>>, <<"t">>} :
        /\ baubuddyToken' = token
        /\ IF ~Truthy(token)
           THEN /\ response' = JSONResponse(503, "Failed to login to Baubuddy server", <<>>)
                /\ spc' = "done"
           ELSE /\ response' = response
                /\ spc' = "active"
    /\ UNCHANGED <<file, vehicles, activeVehiclesDict, labelColors, labelCalls, vi>>
    /\ UNCHANGED <<clientVars, colorVars>>

\* lines 114-125 with getBaubuddyActiveVehicles, lines 44-57: [] when the call fails
vehicles_Active(lists) ==
    /\ spc = "active"
    /\ \E activeVehiclesList \in lists :
        /\ IF ~Truthy(activeVehiclesList)
           THEN /\ response' = JSONResponse(503,
                       "Failed to obtain active vehicles data from Baubuddy server", <<>>)
                /\ spc' = "done"
                /\ activeVehiclesDict' = activeVehiclesDict
           ELSE /\ response' = response
                /\ spc' = "update"
                /\ activeVehiclesDict' = MakeActiveDict(activeVehiclesList)
    /\ UNCHANGED <<file, vehicles, baubuddyToken, labelColors, labelCalls, vi>>
    /\ UNCHANGED <<clientVars, colorVars>>

\* lines 127-149: update vehicles with active vehicles data
vehicles_Update ==
    /\ spc = "update"
    /\ vehicles' = [i \in DOMAIN vehicles |-> UpdateVehicle(vehicles[i], activeVehiclesDict)]
    /\ spc' = "filter"
    /\ UNCHANGED <<file, baubuddyToken, activeVehiclesDict, labelColors,
                   labelCalls, vi, response>>
    /\ UNCHANGED <<clientVars, colorVars>>

\* lines 151-157: filter out the vehicles without 'hu'
vehicles_Filter ==
    /\ spc = "filter"
    /\ vehicles' = SelectSeq(vehicles, HasHu)
    /\ spc' = "labels"
    /\ vi' = 1
    /\ labelColors' = EmptyDict
    /\ UNCHANGED <<file, baubuddyToken, activeVehiclesDict, labelCalls,
                   response>>
    /\ UNCHANGED <<clientVars, colorVars>>

\* lines 158-164 for one vehicle, with getBaubuddyLabelColor, lines 59-76.
\* v[KEY_LABELIDS] raises KeyError when the key is absent, and response.json()[0]
\* raises on a body without a first element: the handler ends with the exception.
vehicles_LabelColor ==
    /\ spc = "labels"
    /\ vi <= Len(vehicles)
    /\ LET v == vehicles[vi] IN
        IF KEY_LABELIDS \notin DOMAIN v
        THEN /\ spc' = "done"
             /\ response' = InternalServerError
             /\ UNCHANGED <<vehicles, labelColors, labelCalls, vi>>
        ELSE IF ~Truthy(v[KEY_LABELIDS])
        THEN /\ vi' = vi + 1
             /\ UNCHANGED <<spc, response, vehicles, labelColors, labelCalls>>
        ELSE LET id == FirstLabelId(v[KEY_LABELIDS]) IN
             IF InCache(id, labelColors)
             THEN /\ vehicles' = [vehicles EXCEPT ![vi] = SetKey(v, KEY_LABELCOLOR, labelColors[id])]
                  /\ vi' = vi + 1
                  /\ UNCHANGED <<spc, response, labelColors, labelCalls>>
             ELSE /\ labelCalls' = Append(labelCalls, id)
                  /\ \/ \E answer \in LabelAnswers :
                          /\ labelColors' = SetKey(labelColors, id, answer)
                          /\ vehicles' = [vehicles EXCEPT ![vi] = SetKey(v, KEY_LABELCOLOR, answer)]
                          /\ vi' = vi + 1
                          /\ UNCHANGED <<spc, response>>
                     \/ /\ spc' = "done"
                        /\ response' = InternalServerError
                        /\ UNCHANGED <<vehicles, labelColors, vi>>
    /\ UNCHANGED <<file, baubuddyToken, activeVehiclesDict>>
    /\ UNCHANGED <<clientVars, colorVars>>

\* lines 166-168
vehicles_Respond ==
    /\ spc = "labels"
    /\ vi > Len(vehicles)
    /\ response' = JSONResponse(200, "OK", vehicles)
    /\ spc' = "done"
    /\ UNCHANGED <<file, vehicles, baubuddyToken, activeVehiclesDict,
                   labelColors, labelCalls, vi>>
    /\ UNCHANGED <<clientVars, colorVars>>

\* the server waits for a request
ServerInit ==
    /\ spc = "idle"
    /\ file = NoFile
    /\ vehicles = <<>>
    /\ baubuddyToken = <<>>
    /\ activeVehiclesDict = EmptyDict
    /\ labelColors = EmptyDict
    /\ labelCalls = <<>>
    /\ vi = 0
    /\ response = NoResponse

\* ------------------------------------------------------------------ dates
\* A 'YYYY-MM-DD' text is the sequence of its three numbers; datetime checks the calendar.
DaysInMonth(y, m) ==
    IF m \in {4, 6, 9, 11} THEN 30
    ELSE IF m /= 2 THEN 31
    ELSE IF (y % 4 = 0 /\ y % 100 /= 0) \/ y % 400 = 0 THEN 29 ELSE 28

\* does datetime.strptime(s, "%Y-%m-%d") accept the text (ValueError otherwise)
IsDateText(s) ==
    /\ Len(s) = 3
    /\ \A i \in 1..3 : s[i] \in Int
    /\ s[1] \in 1..9999
    /\ s[2] \in 1..12
    /\ s[3] \in 1..DaysInMonth(s[1], s[2])

\* datetime.strptime(s, "%Y-%m-%d") of an accepted text
strptime(s) == [year |-> s[1], month |-> s[2], day |-> s[3]]

\* lines 128-129
dateDiffMonths(d1, d2) == (d1.year - d2.year) * 12 + d1.month - d2.month

\* the buckets with the first boundary off by one
colorByAge_early(s, today) ==
    LET monthsOld == dateDiffMonths(today, strptime(s))
    IN  IF monthsOld > 0
        THEN IF monthsOld < 3 THEN COLOR_GREEN
             ELSE IF monthsOld <= 12 THEN COLOR_ORANGE
             ELSE COLOR_RED
        ELSE None

\* lines 131-141, today being datetime.now()
colorByAge(s, today) ==
    LET monthsOld == dateDiffMonths(today, strptime(s))
    IN  IF monthsOld > 0
        THEN IF monthsOld <= 3 THEN COLOR_GREEN
             ELSE IF monthsOld <= 12 THEN COLOR_ORANGE
             ELSE COLOR_RED
        ELSE None

\* ------------------------------------------------------------------ client
\* code points of the characters the 'gruppe' values are made of
ord(c) == CASE c = "A" -> 65 [] c = "B" -> 66 [] c = "Z" -> 90 [] OTHER -> 0

\* s < t on str
RECURSIVE StrLess(_, _)
StrLess(s, t) ==
    IF t = <<>> THEN FALSE
    ELSE IF s = <<>> THEN TRUE
    ELSE IF ord(Head(s)) /= ord(Head(t)) THEN ord(Head(s)) < ord(Head(t))
    ELSE StrLess(Tail(s), Tail(t))

\* a sort that puts an element before the equal ones already placed
RECURSIVE sorted_unstable(_)
sorted_unstable(list) ==
    IF list = <<>> THEN <<>>
    ELSE LET x == list[Len(list)]
             done == sorted_unstable(SubSeq(list, 1, Len(list) - 1))
             n == Cardinality({i \in DOMAIN done : StrLess(done[i][KEY_GRUPPE], x[KEY_GRUPPE])})
         IN  SubSeq(done, 1, n) \o <<x>> \o SubSeq(done, n + 1, Len(done))

\* line 50: sorted(vehicles, key=lambda x: x['gruppe']), a stable sort
RECURSIVE sorted(_)
sorted(list) ==
    IF list = <<>> THEN <<>>
    ELSE LET x == list[Len(list)]
             done == sorted(SubSeq(list, 1, Len(list) - 1))
             n == Cardinality({i \in DOMAIN done : ~StrLess(x[KEY_GRUPPE], done[i][KEY_GRUPPE])})
         IN  SubSeq(done, 1, n) \o <<x>> \o SubSeq(done, n + 1, Len(done))

Range(s) == {s[i] : i \in DOMAIN s}

\* the keys as they are
fromkeys_all(list) == list

\* line 61: list(dict.fromkeys(keys)), the first occurrence of each key
RECURSIVE fromkeys(_)
fromkeys(list) ==
    IF list = <<>> THEN <<>>
    ELSE LET done == fromkeys(SubSeq(list, 1, Len(list) - 1))
         IN  IF list[Len(list)] \in Range(done) THEN done ELSE Append(done, list[Len(list)])

\* lines 58-61
FilterKeys(list, allVehicleKeys) ==
    LET ok(k) == k \in allVehicleKeys /\ k /= "rnr"
    IN  fromkeys(SelectSeq(list, ok))

\* a response with no vehicles passes
NoVehicles_ignored(vs) == FALSE

\* line 45: `if not vehicles`
NoVehicles(vs) == ~Truthy(vs)

\* the process ends: sys.exit(1) at line 159, status 1 for an uncaught exception
Exit(code, exception) ==
    /\ cpc' = "exit"
    /\ exitCode' = code
    /\ raised' = exception

\* lines 32-38: opening vehicles.csv or the POST raises, processVehicleData returns False
processVehicleData_PostFailed ==
    /\ cpc = "start"
    /\ Exit(1, None)
    /\ UNCHANGED <<keysArg, colored, now, sortedVehicles, keys, ws, fills, fonts, rowCount,
                   artifact>>
    /\ UNCHANGED <<serverVars, response, colorVars>>

\* lines 39-61 on the response of the server
processVehicleData(resp) ==
    /\ cpc = "start"
    /\ response' = resp
    /\ IF resp.status /= 200
       THEN \* line 40 reads response.json()["message"]: not there in a 500
            /\ IF resp.message = None THEN Exit(1, "JSONDecodeError") ELSE Exit(1, None)
            /\ UNCHANGED <<sortedVehicles, keys>>
       ELSE IF NoVehicles(resp.vehicles)
       THEN /\ Exit(1, None)
            /\ UNCHANGED <<sortedVehicles, keys>>
       ELSE IF \E i \in DOMAIN resp.vehicles : KEY_GRUPPE \notin DOMAIN resp.vehicles[i]
       THEN /\ Exit(1, "KeyError")
            /\ UNCHANGED <<sortedVehicles, keys>>
       ELSE IF Truthy(keysArg) /\ resp.vehicles = <<>>
       THEN /\ Exit(1, "IndexError")
            /\ sortedVehicles' = <<>>
            /\ keys' = keys
       ELSE /\ sortedVehicles' = sorted(resp.vehicles)
            /\ keys' = IF ~Truthy(keysArg) THEN <<>>
                       ELSE FilterKeys(keysArg, DOMAIN sorted(resp.vehicles)[1])
            /\ cpc' = "excel"
            /\ UNCHANGED <<exitCode, raised>>
    /\ UNCHANGED <<keysArg, colored, now, ws, fills, fonts, rowCount, artifact>>
    /\ UNCHANGED <<serverVars, colorVars>>

\* no styled labelIds cell in a row
NoFont == [column |-> 0, color |-> <<>>, fill |-> None]

\* line 89: the 1-based column of labelIds, 0 for None
labelIdsIndex(ks) ==
    IF KEY_LABELIDS \in Range(ks)
    THEN (CHOOSE i \in DOMAIN ks : ks[i] = KEY_LABELIDS /\ \A j \in 1..(i - 1) : ks[j] /= KEY_LABELIDS) + 1
    ELSE 0

\* lines 95-97 and 103: the exception the row of a vehicle raises, None for none
RowError(v) ==
    IF KEY_RNR \notin DOMAIN v \/ \E i \in DOMAIN keys : keys[i] \notin DOMAIN v THEN "KeyError"
    ELSE IF colored /\ KEY_HU \notin DOMAIN v THEN "KeyError"
    ELSE IF colored /\ ~IsDateText(v[KEY_HU]) THEN "ValueError"
    ELSE None

\* lines 95-98: does the row of a vehicle get into the worksheet (no KeyError in its cells)
RowAppended(v) == KEY_RNR \in DOMAIN v /\ \A i \in DOMAIN keys : keys[i] \in DOMAIN v

\* lines 95-97: the cells of the row of a vehicle
RowCells(v) == <<v[KEY_RNR]>> \o [i \in DOMAIN keys |-> v[keys[i]]]

\* lines 101-103: the fill of the row of a vehicle
RowColor(v) == IF colored THEN colorByAge(v[KEY_HU], now) ELSE None

\* lines 107-113: the styled labelIds cell of the row of a vehicle
RowFont(v) ==
    IF /\ labelIdsIndex(keys) /= 0
       /\ KEY_LABELCOLOR \in DOMAIN v
       /\ Truthy(v[KEY_LABELCOLOR])
    THEN [column |-> labelIdsIndex(keys),
          color |-> lstrip(v[KEY_LABELCOLOR], {"#"}),
          fill |-> RowColor(v)]
    ELSE NoFont

\* lines 70-126 and 64-68: the header row, a row per vehicle until one raises (its row is
\* appended before it is coloured), then wb.save writes the file, or raises and leaves
\* nothing or a part of it; line 65 then raises NameError (`loging`)
createExcelFile ==
    /\ cpc = "excel"
    /\ LET n == Len(sortedVehicles)
           bad == {i \in 1..n : RowError(sortedVehicles[i]) /= None}
           m == IF bad = {} THEN n ELSE (CHOOSE i \in bad : \A j \in bad : i <= j) - 1
       IN  /\ ws' = <<<<KEY_RNR>> \o keys>> \o [i \in 1..m |-> RowCells(sortedVehicles[i])]
                    \o IF bad /= {} /\ RowAppended(sortedVehicles[m + 1])
                       THEN <<RowCells(sortedVehicles[m + 1])>> ELSE <<>>
           /\ fills' = <<IF colored THEN "CCCCCC" ELSE None>>
                       \o [i \in 1..m |-> RowColor(sortedVehicles[i])]
           /\ fonts' = <<NoFont>> \o [i \in 1..m |-> RowFont(sortedVehicles[i])]
           /\ rowCount' = m + 2
           /\ IF bad /= {}
              THEN /\ Exit(1, RowError(sortedVehicles[m + 1]))
                   /\ artifact' = artifact
              ELSE \/ /\ artifact' = "saved"
                      /\ Exit(0, None)
                   \/ /\ artifact' \in {artifact, "partial"}
                      /\ Exit(1, "NameError")
    /\ UNCHANGED <<keysArg, colored, now, sortedVehicles, keys>>
    /\ UNCHANGED <<serverVars, response, colorVars>>

\* the client process starts with its arguments
ClientInit(keyArgs, flags, dates) ==
    /\ cpc = "start"
    /\ keysArg \in keyArgs
    /\ colored \in flags
    /\ now \in dates
    /\ sortedVehicles = <<>>
    /\ keys = <<>>
    /\ ws = <<>>
    /\ fills = <<>>
    /\ fonts = <<>>
    /\ rowCount = 0
    /\ artifact = "none"
    /\ exitCode = 0
    /\ raised = None

\* colorByAge applied to a text, lines 131-141; strptime raises ValueError at line 132
colorByAge_Call ==
    /\ color = "pending"
    /\ color' = IF IsDateText(dateStr) THEN colorByAge(dateStr, now) ELSE "ValueError"
    /\ UNCHANGED <<dateStr, serverVars, response, clientVars>>

ColorIdle ==
    /\ dateStr = <<>>
    /\ color = "pending"

\* ------------------------------------------------------------------ client inputs
\* the calendar dates of the years considered
Dates ==
    {d \in [year : 2023..(2023 + YearSpan), month : 1..12, day : {1, 15, 28, 29, 30, 31}] :
        d.day <= DaysInMonth(d.year, d.month)}

\* texts given to colorByAge: year-month-day triples, valid or not, and other texts
DateTexts ==
    {<<y, m, d>> : y \in 2023..(2023 + YearSpan), m \in 1..12, d \in {1, 15, 28, 29, 30, 31}}
    \cup {<<>>, <<"x">>}

Today == [year |-> 2024, month |-> 6, day |-> 15]

Digit(i) == <<"1", "2", "3", "4", "5", "6", "7", "8", "9">>[i]

\* the i-th vehicle of a response: 'rnr' tells the vehicles apart
ClientVehicle(i, gruppe, withInfo) ==
    LET base == [k \in {KEY_RNR, KEY_GRUPPE, KEY_HU} |->
                    CASE k = KEY_RNR -> <<Digit(i)>>
                      [] k = KEY_GRUPPE -> gruppe
                      [] k = KEY_HU -> <<2024, 1, 31>>]
    IN  IF withInfo THEN SetKey(base, KEY_INFO, <<"x">>) ELSE base

ClientVehicleLists ==
    UNION {{[i \in 1..n |-> ClientVehicle(i, c[i][1], c[i][2])] :
                c \in [1..n -> {<<"A">>, <<"Z">>} \X BOOLEAN]} : n \in 0..MaxVehicles}

\* what the client may receive from POST /vehicles
ClientResponses ==
    {JSONResponse(200, "OK", vs) : vs \in ClientVehicleLists}
    \cup {JSONResponse(400, "No CSV file provided", <<>>),
          JSONResponse(503, "Failed to login to Baubuddy server", <<>>),
          InternalServerError}

KeyArgs == SeqsUpTo({KEY_RNR, KEY_GRUPPE, KEY_INFO, "bogus"}, MaxKeys)

\* the whole run: CSV cells and active vehicles with all the keys the client reads
RunCsvValues ==
    [k \in {KEY_KURZNAME, KEY_HU, KEY_LABELIDS, KEY_GRUPPE, KEY_RNR} |->
    CASE k = KEY_KURZNAME -> {NameA, NameB}
      [] k = KEY_HU       -> {<<>>, <<2024, 1, 31>>, <<"h">>}
      [] k = KEY_LABELIDS -> {<<"7">>}
      [] k = KEY_GRUPPE   -> {<<"A">>}
      [] k = KEY_RNR      -> {<<"1">>}]

RunActiveValues ==
    [k \in {KEY_KURZNAME, KEY_HU, KEY_LABELIDS} |->
    CASE k = KEY_KURZNAME -> {NameA}
      [] k = KEY_HU       -> {<<>>, <<2023, 1, 31>>}
      [] k = KEY_LABELIDS -> {<<"8">>}]

RunFiles ==
    CsvFiles({{KEY_KURZNAME, KEY_HU, KEY_LABELIDS, KEY_GRUPPE, KEY_RNR}}, RunCsvValues)

RunActiveLists == SeqsUpTo(ActiveRecords(RunActiveValues), MaxActive)

RunKeyArgs == {<<>>, <<KEY_GRUPPE, KEY_LABELIDS>>}

\* ------------------------------------------------------------------ specifications
ServerSteps ==
    \/ vehicles_Login
    \/ vehicles_Update
    \/ vehicles_Filter
    \/ vehicles_LabelColor
    \/ vehicles_Respond

ClientSteps ==
    \/ processVehicleData_PostFailed
    \/ createExcelFile

\* the server handling one request
Init ==
    /\ ServerInit
    /\ ClientInit({<<>>}, {FALSE}, {Today})
    /\ ColorIdle

Next ==
    \/ vehicles_Request(MergeFiles \cup LabelFiles)
    \/ vehicles_Active(MergeActiveLists)
    \/ ServerSteps

Spec == Init /\ [][Next]_vars

\* the client on a response of the server
InitClient ==
    /\ ServerInit
    /\ ClientInit(KeyArgs, {TRUE}, {Today})
    /\ ColorIdle

NextClient ==
    \/ \E resp \in ClientResponses : processVehicleData(resp)
    \/ ClientSteps

SpecClient == InitClient /\ [][NextClient]_vars

\* one run of the client against the server
InitRun ==
    /\ ServerInit
    /\ ClientInit(RunKeyArgs, BOOLEAN, {Today})
    /\ ColorIdle

\* line 35: the POST returns what the handler answered
processVehicleData_Post ==
    /\ spc = "done"
    /\ processVehicleData(response)

NextRun ==
    \/ vehicles_Request(RunFiles)
    \/ vehicles_Active(RunActiveLists)
    \/ ServerSteps
    \/ processVehicleData_Post
    \/ ClientSteps

SpecRun == InitRun /\ [][NextRun]_vars

\* colorByAge on every text and every day
InitColor ==
    /\ ServerInit
    /\ ClientInit({<<>>}, {FALSE}, Dates)
    /\ dateStr \in DateTexts
    /\ color = "pending"

NextColor == colorByAge_Call

SpecColor == InitColor /\ [][NextColor]_vars

\* ------------------------------------------------------------------ properties
\* C1: after the update of a CSV vehicle R that has an active vehicle A of the same
\* kurzname, every key of A holds R's value when R has the key with a non-empty value and
\* A's value otherwise, and every key of R that A has not is unchanged.
C1_FillMissingKeepsCsvValues ==
    spc = "filter" =>
        \A i \in DOMAIN file.rows :
            LET R == file.rows[i]
                rec == vehicles[i]
            IN  R[KEY_KURZNAME] \in DOMAIN activeVehiclesDict =>
                    LET A == activeVehiclesDict[R[KEY_KURZNAME]]
                    IN  /\ DOMAIN rec = DOMAIN R \cup DOMAIN A
                        /\ \A k \in DOMAIN A :
                              rec[k] = IF k \in DOMAIN R /\ R[k] /= <<>> THEN R[k] ELSE A[k]
                        /\ \A k \in DOMAIN R \ DOMAIN A : rec[k] = R[k]

\* a vehicle was updated that kept a value of its own against a different active value and
\* took an active value for a key it had empty or not at all
C1_Witness ==
    /\ spc = "filter"
    /\ \E i \in DOMAIN file.rows :
        LET R == file.rows[i]
        IN  /\ R[KEY_KURZNAME] \in DOMAIN activeVehiclesDict
            /\ LET A == activeVehiclesDict[R[KEY_KURZNAME]]
               IN  /\ \E k \in DOMAIN A \cap DOMAIN R :
                        R[k] /= <<>> /\ A[k] /= R[k] /\ vehicles[i][k] = R[k]
                   /\ \E k \in DOMAIN A :
                        /\ k \notin DOMAIN R \/ R[k] = <<>>
                        /\ A[k] /= <<>>
                        /\ vehicles[i][k] = A[k]

\* C2: a CSV vehicle whose kurzname no active vehicle has is left as it is by the update,
\* and is not among the filtered vehicles when it has no non-empty 'hu' of its own.
C2_UnmatchedUnchangedAndDropped ==
    /\ spc = "filter" =>
        \A i \in DOMAIN file.rows :
            file.rows[i][KEY_KURZNAME] \notin DOMAIN activeVehiclesDict
                => vehicles[i] = file.rows[i]
    /\ (spc = "labels" \/ (spc = "done" /\ response.status \in {200, 500})) =>
        \A i \in DOMAIN file.rows :
            LET R == file.rows[i]
            IN  /\ R[KEY_KURZNAME] \notin DOMAIN activeVehiclesDict
                /\ ~(KEY_HU \in DOMAIN R /\ R[KEY_HU] /= <<>>)
                => /\ \A j \in DOMAIN vehicles :
                        [k \in DOMAIN vehicles[j] \ {KEY_LABELCOLOR} |-> vehicles[j][k]] /= R
                   /\ \A j \in DOMAIN response.vehicles :
                        [k \in DOMAIN response.vehicles[j] \ {KEY_LABELCOLOR} |->
                            response.vehicles[j][k]] /= R

\* the handler answered with vehicles while a CSV vehicle without 'hu' had no active vehicle
C2_Witness ==
    /\ spc = "done"
    /\ response.status = 200
    /\ response.vehicles /= <<>>
    /\ \E i \in DOMAIN file.rows :
        /\ file.rows[i][KEY_KURZNAME] \notin DOMAIN activeVehiclesDict
        /\ KEY_HU \in DOMAIN file.rows[i]
        /\ file.rows[i][KEY_HU] = <<>>

\* C3: within one request getBaubuddyLabelColor is called at most once for a label id,
\* also when the first call returned ''.
C3_LookupAtMostOncePerLabel ==
    \A i, j \in DOMAIN labelCalls : labelCalls[i] = labelCalls[j] => i = j

\* two vehicles with the same first label id were coloured after one call that returned ''
C3_Witness ==
    /\ spc = "done"
    /\ response.status = 200
    /\ Len(labelCalls) = 1
    /\ labelColors[labelCalls[1]] = <<>>
    /\ \E i, j \in DOMAIN vehicles :
        /\ i < j
        /\ KEY_LABELCOLOR \in DOMAIN vehicles[i]
        /\ KEY_LABELCOLOR \in DOMAIN vehicles[j]
        /\ FirstLabelId(vehicles[i][KEY_LABELIDS]) = FirstLabelId(vehicles[j][KEY_LABELIDS])

\* C4: a vehicle with a non-empty labelIds has as _labelColor the colour looked up for the
\* first comma-separated token with the whitespace around the token removed.
C4_FirstTokenTrimmed ==
    \A j \in 1..(vi - 1) :
        LET v == vehicles[j]
        IN  (KEY_LABELIDS \in DOMAIN v /\ v[KEY_LABELIDS] /= <<>>) =>
                LET token == strip(split(v[KEY_LABELIDS])[1])
                IN  /\ KEY_LABELCOLOR \in DOMAIN v
                    /\ token \in DOMAIN labelColors
                    /\ v[KEY_LABELCOLOR] = labelColors[token]

\* C5: a filtered vehicle without labelIds, or with a labelIds that is empty after
\* trimming (whitespace only, or an empty first token), gets no _labelColor, causes no
\* label lookup and does not make the request fail.
C5_EmptyLabelsAreSkipped ==
    LET empty(v) == \/ KEY_LABELIDS \notin DOMAIN v
                    \/ strip(v[KEY_LABELIDS]) = <<>>
                    \/ strip(split(v[KEY_LABELIDS])[1]) = <<>>
    IN  /\ \A j \in DOMAIN vehicles : empty(vehicles[j]) => KEY_LABELCOLOR \notin DOMAIN vehicles[j]
        /\ \A c \in DOMAIN labelCalls : labelCalls[c] /= <<>>
        /\ ~(/\ spc = "done"
             /\ response.status = 500
             /\ vi \in DOMAIN vehicles
             /\ empty(vehicles[vi]))

\* C6: with monthsOld = (today.year - date.year) * 12 + (today.month - date.month) the
\* colour is none for monthsOld <= 0, green for 0 < monthsOld <= 3, orange for
\* 3 < monthsOld <= 12 and red for monthsOld > 12, and every date of the same calendar
\* month gets the same colour.
C6_RecencyBuckets ==
    (color /= "pending" /\ IsDateText(dateStr)) =>
        LET monthsOld == (now.year - dateStr[1]) * 12 + (now.month - dateStr[2])
        IN  /\ monthsOld <= 0 => color = None
            /\ (0 < monthsOld /\ monthsOld <= 3) => color = COLOR_GREEN
            /\ (3 < monthsOld /\ monthsOld <= 12) => color = COLOR_ORANGE
            /\ monthsOld > 12 => color = COLOR_RED
            /\ \A day \in 1..DaysInMonth(dateStr[1], dateStr[2]) :
                colorByAge(<<dateStr[1], dateStr[2], day>>, now) = color

\* a date at the end of the month three months back, seen from the start of a month: green
C6_Witness ==
    /\ color = COLOR_GREEN
    /\ IsDateText(dateStr)
    /\ (now.year - dateStr[1]) * 12 + (now.month - dateStr[2]) = 3
    /\ dateStr[3] > now.day

C8_FailedRunWritesNothing ==
    LET failed ==
            \/ file.kind = "malformed"
            \/ spc /= "idle" /\ file.kind = "csv" /\ file.rows = <<>>
            \/ spc = "done" /\ file.kind = "csv" /\ file.rows /= <<>> /\ baubuddyToken = <<>>
            \/ spc = "done" /\ baubuddyToken /= <<>> /\ activeVehiclesDict = EmptyDict
            \/ spc \in {"labels", "done"} /\ activeVehiclesDict /= EmptyDict /\ vehicles = <<>>
    IN  failed => /\ artifact = "none"
                  /\ cpc /= "excel"
                  /\ cpc = "exit" => exitCode /= 0

\* the client exited on a 200 response without vehicles: every CSV vehicle was filtered out
C8_Witness ==
    /\ cpc = "exit"
    /\ exitCode = 1
    /\ artifact = "none"
    /\ response.status = 200
    /\ file.rows /= <<>>
    /\ vehicles = <<>>

\* C9: the rows of the saved file are the received vehicles in ascending order of
\* 'gruppe', vehicles of equal 'gruppe' in their order of arrival: vehicle k is the row
\* after the vehicles of smaller 'gruppe' and the earlier vehicles of the same 'gruppe'.
C9_RowsSortedStable ==
    artifact = "saved" =>
        LET vs == response.vehicles
            place(k) ==
                Cardinality({j \in DOMAIN vs : StrLess(vs[j][KEY_GRUPPE], vs[k][KEY_GRUPPE])})
                + Cardinality({j \in 1..(k - 1) : vs[j][KEY_GRUPPE] = vs[k][KEY_GRUPPE]}) + 1
        IN  /\ Len(ws) = Len(vs) + 1
            /\ \A k \in DOMAIN vs :
                ws[place(k) + 1] = <<vs[k][KEY_RNR]>> \o [c \in DOMAIN keys |-> vs[k][keys[c]]]

\* a file was saved for vehicles received in the order Z, A, A
C9_Witness ==
    /\ artifact = "saved"
    /\ \E i, j, k \in DOMAIN response.vehicles :
        /\ i < j
        /\ j < k
        /\ StrLess(response.vehicles[j][KEY_GRUPPE], response.vehicles[i][KEY_GRUPPE])
        /\ response.vehicles[j][KEY_GRUPPE] = response.vehicles[k][KEY_GRUPPE]

\* C10: once the rows are emitted, every vehicle has a row whose cell of a filtered key is
\* the vehicle's value, or an empty cell when the vehicle has not the key; no KeyError.
C10_MissingCellIsEmpty ==
    (cpc = "exit" /\ ws /= <<>>) =>
        /\ raised /= "KeyError"
        /\ \A i \in DOMAIN sortedVehicles :
            /\ i + 1 \in DOMAIN ws
            /\ \A c \in DOMAIN keys :
                ws[i + 1][c + 1] = IF keys[c] \in DOMAIN sortedVehicles[i]
                                   THEN sortedVehicles[i][keys[c]] ELSE <<>>

====
